---- MODULE Spec2Model ----
(***************************************************************************)
(* NGNX.ViewRegistry2 (src/src/viewregistry.js): a hierarchical view       *)
(* registry.  Each registry owns a state, a map of state handlers, a map   *)
(* of reactions to its parent's state, and an optional property model.     *)
(* Events travel over one global bus; NGNX.Driver prefixes every event     *)
(* name a registry emits or listens to with the registry's scope.          *)
(*                                                                         *)
(* JavaScript strings are sequences of one-character strings, so that      *)
(* trim() and toLowerCase() are computed, and event names are sequences    *)
(* of name segments, so that scope + topic is a concatenation.             *)
(***************************************************************************)
EXTENDS Integers, Sequences, FiniteSets, TLC

\* Depth of nested emit() calls the call stack takes before a RangeError.
MaxDepth == 12

(***************************************************************************)
(* JavaScript values and strings                                           *)
(***************************************************************************)
JsNull == [t |-> "null", v |-> <<>>]
Str(s) == [t |-> "string", v |-> s]

Default == <<"d", "e", "f", "a", "u", "l", "t">>
On      == <<"o", "n">>
Off     == <<"o", "f", "f">>
OnRaw   == <<" ", "O", "n">>
OffRaw  == <<"O", "F", "F", " ">>

\* NGN.coalesce: the first argument that is not null/undefined.
Coalesce(a, b) == IF a.t = "null" THEN b ELSE a

ToLowerChar(c) ==
  CASE c = "O" -> "o"
    [] c = "N" -> "n"
    [] c = "F" -> "f"
    [] c = "D" -> "d"
    [] OTHER   -> c

ToLowerCase(s) == [i \in 1..Len(s) |-> ToLowerChar(s[i])]

RECURSIVE TrimLeft(_)
TrimLeft(s) == IF s # <<>> /\ Head(s) = " " THEN TrimLeft(Tail(s)) ELSE s

RECURSIVE TrimRight(_)
TrimRight(s) ==
  IF s # <<>> /\ s[Len(s)] = " " THEN TrimRight(SubSeq(s, 1, Len(s) - 1)) ELSE s

Trim(s) == TrimRight(TrimLeft(s))

\* value.toString().toLowerCase(), the trim() left out
NormalizeWithoutTrim(s) == ToLowerCase(s)

\* value.toString().trim().toLowerCase() for a string value
Normalize(s) == ToLowerCase(Trim(s))

(***************************************************************************)
(* Event names                                                             *)
(***************************************************************************)
StateChanged          == <<"state", "changed">>
PropertyChanged       == <<"property", "changed">>
ParentStateChanged    == <<"parent", "state", "changed">>
ParentPropertyChanged == <<"parent", "property", "changed">>

(***************************************************************************)
(* The program's state                                                     *)
(***************************************************************************)
Regs  == {1, 2, 3}
NoReg == 0

VARIABLES
  cfg,          \* the configuration object user code passes to each constructor
  built,        \* the registries whose constructor has returned
  scope,        \* NGNX.Driver scope of each registry (cfg.namespace || null)
  _states,      \* state name -> what the user's handler does ("ok" / "throw")
  _state,       \* current state name
  _reactions,   \* parent state -> own state, or null
  _properties,  \* the property model (NGN.DATA.Model instance), or null
  listeners,    \* NGN.BUS subscriptions, in registration order
  queue,        \* callbacks handed to NGNX.util.requeue, oldest first
  last,         \* what the most recent top-level call did
  document,     \* selector of each element in the page -> its style's display
  hasDOM,       \* NGN.hasOwnProperty('DOM')
  selector,     \* this.selector of each registry
  displaystate, \* display value cached by hide(), or null
  refs,         \* registries with a self reference in NGN.ref
  failed        \* configurations whose constructor threw

\* The page, the reference table and what each registry knows of its element.
dom == <<document, hasDOM, selector, displaystate, refs, failed>>

vars == <<cfg, built, scope, _states, _state, _reactions, _properties,
          listeners, queue, last, dom>>

NullMap  == [null |-> TRUE, map |-> <<>>]
Map(m)   == [null |-> FALSE, map |-> m]
NullScope == [null |-> TRUE, v |-> <<>>]

\* get reactions: NGN.coalesce(this._reactions, {})
reactions(r) == IF _reactions[r].null THEN <<>> ELSE _reactions[r].map

\* managesState: this._states.hasOwnProperty(state) && typeof ... === 'function'
managesState(r, st, state) == state.t = "string" /\ state.v \in DOMAIN st

\* managesReaction: this.reactions.hasOwnProperty(state)
managesReaction(r, state) == state \in DOMAIN reactions(r)

(***************************************************************************)
(* NGNX.Driver on()/emit(): the scope is prepended to the event name, and  *)
(* NGN.BUS calls the listeners of that name synchronously, in the order    *)
(* they subscribed; a listener that throws ends the emit.                  *)
(***************************************************************************)
EventName(r, topic) == (IF scope[r].null THEN <<>> ELSE scope[r].v) \o topic

ListenersOn(name) == SelectSeq(listeners, LAMBDA l : l.name = name)

\* `arguments` inside the constructor's arrow functions is the constructor's
\* own arguments object: the configuration, not the listener's argument.
HandlerArguments(r, change) == <<[cfgOf |-> r]>>

World(st) == [st |-> st, ev |-> <<>>, calls |-> <<>>, threw |-> "none"]

Throw(w, e) == [w EXCEPT !.threw = e]

\* The wrapped state handler (constructor, "Apply scope warnings"): call the
\* user's handler, re-throw what it throws.
CallHandler(w, r, key, change) ==
  LET w1 == [w EXCEPT !.calls = Append(@, [reg  |-> r, key |-> key,
                                           args |-> HandlerArguments(r, change)])]
  IN IF _states[r][key] = "throw" THEN Throw(w1, "HandlerError") ELSE w1

\* The state.changed listener: this._states[coalesce(change.new, 'default')].apply(...)
Dispatch(w, r, change) ==
  IF change.new \in DOMAIN _states[r]
    THEN CallHandler(w, r, change.new, change)
    ELSE Throw(w, "TypeError")

\* The parent state the reaction listener looks up: state.new
ReactionKey(change) == change.new

RECURSIVE SetState(_, _, _, _)
RECURSIVE Emit(_, _, _, _, _)
RECURSIVE RunListeners(_, _, _, _)
RECURSIVE CallListener(_, _, _, _)

\* set state (value) without its emit
SetStateSilent(w, r, value, d) ==
  IF Str(w.st[r]) = value THEN w
  ELSE IF value.t = "null" THEN Throw(w, "TypeError")
  ELSE [w EXCEPT !.st[r] = Normalize(value.v)]

\* set state (value)
SetState(w, r, value, d) ==
  IF Str(w.st[r]) = value THEN w
  ELSE IF value.t = "null" THEN Throw(w, "TypeError")
  ELSE LET old == w.st[r]
           w1  == [w EXCEPT !.st[r] = Normalize(value.v)]
       IN Emit(w1, r, StateChanged, [old |-> old, new |-> w1.st[r]], d)

Emit(w, r, topic, data, d) ==
  IF d >= MaxDepth THEN Throw(w, "RangeError")
  ELSE LET name == EventName(r, topic)
           w1   == [w EXCEPT !.ev = Append(@, [by |-> r, name |-> name, data |-> data])]
       IN RunListeners(w1, ListenersOn(name), data, d + 1)

RunListeners(w, ls, data, d) ==
  IF ls = <<>> \/ w.threw # "none" THEN w
  ELSE RunListeners(CallListener(w, Head(ls), data, d), Tail(ls), data, d)

CallListener(w, l, data, d) ==
  CASE l.kind = "forwardState" -> Emit(w, l.reg, ParentStateChanged, data, d)
    [] l.kind = "forwardProperty" -> Emit(w, l.reg, ParentPropertyChanged, data, d)
    [] l.kind = "react" ->
         IF managesReaction(l.reg, ReactionKey(data))
           THEN SetState(w, l.reg, Str(reactions(l.reg)[ReactionKey(data)]), d)
           ELSE w
    [] l.kind = "dispatch" -> Dispatch(w, l.reg, data)

(***************************************************************************)
(* The record of the most recent top-level call, for stating its effect    *)
(***************************************************************************)
NoCall == [op |-> "none", reg |-> NoReg, value |-> JsNull, source |-> <<>>,
           pre |-> [r \in Regs |-> Default], preReactions |-> [r \in Regs |-> NullMap],
           preQueue |-> <<>>, ev |-> <<>>, calls |-> <<>>, threw |-> "none"]

Call(op, r) == [NoCall EXCEPT !.op = op, !.reg = r, !.pre = _state,
                              !.preReactions = _reactions, !.preQueue = queue]

Returned(c, w) == [c EXCEPT !.ev = w.ev, !.calls = w.calls, !.threw = w.threw]

(***************************************************************************)
(* constructor (cfg)                                                       *)
(***************************************************************************)
\* "Prepend namespace": the namespace handed to NGNX.Driver, which keeps
\* cfg.namespace || null as the scope.
InheritedScope(c) ==
  IF c.parent = NoReg
    THEN (IF c.hasNamespace THEN [null |-> FALSE, v |-> c.namespace] ELSE NullScope)
  ELSE IF c.hasNamespace
    THEN (IF ~scope[c.parent].null
            THEN [null |-> FALSE, v |-> scope[c.parent].v \o c.namespace]
            ELSE [null |-> FALSE, v |-> c.namespace])
  ELSE IF ~scope[c.parent].null /\ scope[c.parent].v # <<>>
    THEN scope[c.parent]
  ELSE NullScope

\* "Assure a default state method exists"
WithDefault(st) ==
  IF Default \in DOMAIN st THEN st
  ELSE [k \in DOMAIN st \cup {Default} |-> IF k = Default THEN "ok" ELSE st[k]]

\* The constructor's subscriptions without the parent's property.changed.
SubscriptionsWithoutPropertyForward(r, c, sc) ==
  LET mine(topic)   == (IF sc.null THEN <<>> ELSE sc.v) \o topic
      parentWatch   == IF c.parent # NoReg
                         THEN << [name |-> EventName(c.parent, StateChanged),
                                  kind |-> "forwardState", reg |-> r] >>
                         ELSE <<>>
  IN parentWatch \o << [name |-> mine(ParentStateChanged), kind |-> "react", reg |-> r],
                       [name |-> mine(StateChanged), kind |-> "dispatch", reg |-> r] >>

\* Subscriptions the constructor makes, in order.
Subscriptions(r, c, sc) ==
  LET mine(topic)   == (IF sc.null THEN <<>> ELSE sc.v) \o topic
      parentWatch   == IF c.parent # NoReg
                         THEN << [name |-> EventName(c.parent, StateChanged),
                                  kind |-> "forwardState", reg |-> r],
                                 [name |-> EventName(c.parent, PropertyChanged),
                                  kind |-> "forwardProperty", reg |-> r] >>
                         ELSE <<>>
  IN parentWatch \o << [name |-> mine(ParentStateChanged), kind |-> "react", reg |-> r],
                       [name |-> mine(StateChanged), kind |-> "dispatch", reg |-> r] >>

\* initialstate: NGN.coalesce(cfg.initialState, cfg.initialstate, 'default')
InitialState(c) == Coalesce(c.initialState, Str(Default))

\* cfg.selector as the element is looked up: parent.selector + ' ' + selector
EffectiveSelector(c) ==
  IF c.parent # NoReg THEN selector[c.parent] \o c.selector ELSE c.selector

\* What the constructor has written into the cfg object it was handed when
\* it reaches document.querySelector(cfg.selector).
ScopedCfg(c) ==
  IF c.parent = NoReg THEN c
  ELSE [c EXCEPT !.selector = EffectiveSelector(c),
                 !.hasNamespace = ~InheritedScope(c).null,
                 !.namespace = IF InheritedScope(c).null THEN <<>>
                               ELSE InheritedScope(c).v]

\* The constructor's checks without the lookup of the element
ConfigurationErrorBeforeLookup(c) ==
  IF ~c.isObject THEN "InvalidConfiguration"
  ELSE IF ~c.hasSelector THEN "MissingSelector"
  ELSE IF c.parent # NoReg /\ selector[c.parent] \notin DOMAIN document
    THEN "ParentNotFound"
  ELSE "none"

\* The constructor's checks, in order; "none" when all pass.
ConfigurationError(c) ==
  IF ~c.isObject THEN "InvalidConfiguration"
  ELSE IF ~c.hasSelector THEN "MissingSelector"
  ELSE IF c.parent # NoReg /\ selector[c.parent] \notin DOMAIN document
    THEN "ParentNotFound"
  ELSE IF EffectiveSelector(c) \notin DOMAIN document THEN "ElementNotFound"
  ELSE "none"

Construct(r) ==
  /\ r \notin built \cup failed
  /\ cfg[r].present
  /\ cfg[r].parent # NoReg => cfg[r].parent \in built
  /\ LET c   == cfg[r]
         sc  == InheritedScope(c)
         st  == WithDefault(c.states)
         err == ConfigurationError(c)
     IN IF err # "none"
          THEN /\ failed' = failed \cup {r}
               /\ cfg' = IF err = "ElementNotFound"
                            THEN [cfg EXCEPT ![r] = ScopedCfg(c)] ELSE cfg
               /\ last' = [Call("construct", r) EXCEPT !.threw = err]
               /\ UNCHANGED <<built, scope, _states, _state, _reactions, _properties,
                              listeners, queue, document, hasDOM, selector,
                              displaystate, refs>>
          ELSE /\ cfg' = [cfg EXCEPT ![r] = ScopedCfg(c)]
               /\ selector' = [selector EXCEPT ![r] = EffectiveSelector(c)]
               /\ built' = built \cup {r}
               /\ scope' = [scope EXCEPT ![r] = sc]
               /\ _states' = [_states EXCEPT ![r] = st]
               /\ _state' = [_state EXCEPT ![r] = Default]
               /\ _reactions' = [_reactions EXCEPT ![r] = c.reactions]
               /\ refs' = refs \cup {r}
               /\ _properties' = [_properties EXCEPT ![r] =
                                    IF c.properties.null THEN NullMap ELSE c.properties]
               /\ listeners' = listeners \o Subscriptions(r, c, sc)
               /\ queue' = IF InitialState(c) # Str(Default)
                                /\ managesState(r, st, InitialState(c))
                             THEN Append(queue, r) ELSE queue
               /\ last' = Call("construct", r)
               /\ UNCHANGED <<document, hasDOM, displaystate, failed>>

\* The callback handed to NGNX.util.requeue: this.state = this.initialstate
RunRequeued ==
  /\ queue # <<>>
  /\ LET r == Head(queue)
         w == SetState(World(_state), r, InitialState(cfg[r]), 0)
     IN /\ _state' = w.st
        /\ queue' = Tail(queue)
        /\ last' = Returned([Call("requeued", r) EXCEPT !.value = InitialState(cfg[r])], w)
  /\ UNCHANGED <<dom, cfg, built, scope, _states, _reactions, _properties, listeners>>

(***************************************************************************)
(* Calls user code makes on a constructed registry                         *)
(***************************************************************************)
Values == {Str(Default), Str(On), Str(Off), Str(OnRaw), JsNull}

\* registry.state = value
Assign(r, value) ==
  /\ r \in built
  /\ LET w == SetState(World(_state), r, value, 0)
     IN /\ _state' = w.st
        /\ last' = Returned([Call("assign", r) EXCEPT !.value = value], w)
  /\ UNCHANGED <<dom, cfg, built, scope, _states, _reactions, _properties,
                 listeners, queue>>

\* createReaction without its check for a parent
CreateReactionUnchecked(r, source, target) ==
  /\ r \in built
  /\ IF _reactions[r].null
       THEN /\ last' = [Call("createReaction", r) EXCEPT !.source = source,
                           !.value = Str(target), !.threw = "TypeError"]
            /\ UNCHANGED _reactions
     ELSE /\ _reactions' = [_reactions EXCEPT ![r] =
               Map([k \in DOMAIN @.map \cup {source} |->
                      IF k = source THEN target ELSE @.map[k]])]
          /\ last' = [Call("createReaction", r) EXCEPT !.source = source, !.value = Str(target)]
  /\ UNCHANGED <<dom, cfg, built, scope, _states, _state, _properties, listeners, queue>>

\* createReaction (source, target)
CreateReaction(r, source, target) ==
  /\ r \in built
  /\ IF cfg[r].parent = NoReg
       THEN /\ last' = [Call("createReaction", r) EXCEPT !.source = source, !.value = Str(target)]
            /\ UNCHANGED _reactions
     ELSE IF _reactions[r].null
       THEN /\ last' = [Call("createReaction", r) EXCEPT !.source = source,
                           !.value = Str(target), !.threw = "TypeError"]
            /\ UNCHANGED _reactions
     ELSE /\ _reactions' = [_reactions EXCEPT ![r] =
               Map([k \in DOMAIN @.map \cup {source} |->
                      IF k = source THEN target ELSE @.map[k]])]
          /\ last' = [Call("createReaction", r) EXCEPT !.source = source, !.value = Str(target)]
  /\ UNCHANGED <<dom, cfg, built, scope, _states, _state, _properties, listeners, queue>>

\* removeReaction deleting from this._reactions without asking the getter
RemoveReactionUnguarded(r, source) ==
  /\ r \in built
  /\ IF _reactions[r].null
       THEN /\ last' = [Call("removeReaction", r) EXCEPT !.source = source,
                                                         !.threw = "TypeError"]
            /\ UNCHANGED _reactions
       ELSE /\ _reactions' = [_reactions EXCEPT ![r] =
                                Map([k \in DOMAIN @.map \ {source} |-> @.map[k]])]
            /\ last' = [Call("removeReaction", r) EXCEPT !.source = source]
  /\ UNCHANGED <<dom, cfg, built, scope, _states, _state, _properties, listeners, queue>>

\* removeReaction (source)
RemoveReaction(r, source) ==
  /\ r \in built
  /\ _reactions' = IF source \in DOMAIN reactions(r)
                     THEN [_reactions EXCEPT ![r] =
                             Map([k \in DOMAIN @.map \ {source} |-> @.map[k]])]
                     ELSE _reactions
  /\ last' = [Call("removeReaction", r) EXCEPT !.source = source]
  /\ UNCHANGED <<dom, cfg, built, scope, _states, _state, _properties, listeners, queue>>

\* clearReactions leaving the map as it is
ClearReactionsKeeping(r) ==
  /\ r \in built
  /\ last' = Call("clearReactions", r)
  /\ UNCHANGED <<dom, cfg, built, scope, _states, _state, _reactions, _properties,
                 listeners, queue>>

\* clearReactions ()
ClearReactions(r) ==
  /\ r \in built
  /\ _reactions' = [_reactions EXCEPT ![r] = NullMap]
  /\ last' = Call("clearReactions", r)
  /\ UNCHANGED <<dom, cfg, built, scope, _states, _state, _properties, listeners, queue>>

(***************************************************************************)
(* The property model (NGN.DATA.Model) fires field.update, field.create    *)
(* and field.delete; the constructor's three listeners translate them.     *)
(***************************************************************************)
Fields     == {"title", "extra"}
PropValues == {Str(<<"x">>), Str(<<"y">>)}

\* this._properties.on('field.update', ...)
OnFieldUpdate(w, r, change) ==
  Emit(w, r, PropertyChanged,
       [property |-> change.field, old |-> change.old, new |-> change.new], 0)

\* field.create translated without reading the field's value
OnFieldCreateNoValue(w, r, change, props) ==
  Emit(w, r, PropertyChanged,
       [property |-> change.field, old |-> JsNull, new |-> JsNull], 0)

\* this._properties.on('field.create', ...): props is the model after the creation
OnFieldCreate(w, r, change, props) ==
  Emit(w, r, PropertyChanged,
       [property |-> change.field, old |-> JsNull,
        new |-> Coalesce(props[change.field], JsNull)], 0)

\* this._properties.on('field.delete', ...)
OnFieldDelete(w, r, change) ==
  Emit(w, r, PropertyChanged,
       [property |-> change.field, old |-> change.value, new |-> JsNull], 0)

PropCall(op, r, change) == [Call(op, r) EXCEPT !.value = change]

\* registry.properties.<field> = value
UpdateField(r, field, value) ==
  /\ r \in built /\ ~_properties[r].null
  /\ field \in DOMAIN _properties[r].map
  /\ _properties[r].map[field] # value
  /\ LET change == [field |-> field, old |-> _properties[r].map[field], new |-> value]
         w      == OnFieldUpdate(World(_state), r, change)
     IN /\ _properties' = [_properties EXCEPT ![r].map[field] = value]
        /\ last' = Returned(PropCall("field.update", r, change), w)
  /\ UNCHANGED <<dom, cfg, built, scope, _states, _state, _reactions, listeners, queue>>

\* registry.properties.addField(field), the new field holding `value`
CreateField(r, field, value) ==
  /\ r \in built /\ ~_properties[r].null
  /\ field \notin DOMAIN _properties[r].map
  /\ LET change == [field |-> field]
         props  == [f \in DOMAIN _properties[r].map \cup {field} |->
                      IF f = field THEN value ELSE _properties[r].map[f]]
         w      == OnFieldCreate(World(_state), r, change, props)
     IN /\ _properties' = [_properties EXCEPT ![r] = Map(props)]
        /\ last' = Returned(PropCall("field.create", r, change), w)
  /\ UNCHANGED <<dom, cfg, built, scope, _states, _state, _reactions, listeners, queue>>

\* registry.properties.removeField(field)
DeleteField(r, field) ==
  /\ r \in built /\ ~_properties[r].null
  /\ field \in DOMAIN _properties[r].map
  /\ LET change == [field |-> field, value |-> _properties[r].map[field]]
         w      == OnFieldDelete(World(_state), r, change)
     IN /\ _properties' = [_properties EXCEPT ![r] =
                             Map([f \in DOMAIN @.map \ {field} |-> @.map[f]])]
        /\ last' = Returned(PropCall("field.delete", r, change), w)
  /\ UNCHANGED <<dom, cfg, built, scope, _states, _state, _reactions, listeners, queue>>

\* What `get properties` hands out when no model exists: {}
EmptyObject == [t |-> "object", v |-> <<>>]

\* get properties creating an empty model when none is configured
ReadPropertiesCreating(r) ==
  /\ r \in built
  /\ _properties' = [_properties EXCEPT ![r] = IF @.null THEN Map(<<>>) ELSE @]
  /\ last' = [Call("properties", r) EXCEPT
                !.value = [t |-> "model", v |-> _properties'[r].map]]
  /\ UNCHANGED <<dom, cfg, built, scope, _states, _state, _reactions, listeners, queue>>

\* get properties
ReadProperties(r) ==
  /\ r \in built
  /\ last' = [Call("properties", r) EXCEPT
                !.value = IF _properties[r].null THEN EmptyObject
                          ELSE [t |-> "model", v |-> _properties[r].map]]
  /\ UNCHANGED <<dom, cfg, built, scope, _states, _state, _reactions, _properties,
                 listeners, queue>>

(***************************************************************************)
(* The bound element: this.self is the NGN.ref reference created from      *)
(* this.selector; hide(), show() and destroy() act on it.                  *)
(***************************************************************************)
None  == <<"n", "o", "n", "e">>
Block == <<"b", "l", "o", "c", "k">>

\* The element is in the page.
Bound(r) == r \in built /\ selector[r] \in DOMAIN document

\* hide ()
Hide(r) ==
  /\ Bound(r)
  /\ displaystate' = [displaystate EXCEPT ![r] = Str(document[selector[r]])]
  /\ document' = [document EXCEPT ![selector[r]] = None]
  /\ last' = [Call("hide", r) EXCEPT !.value = Str(document[selector[r]])]
  /\ UNCHANGED <<cfg, built, scope, _states, _state, _reactions, _properties,
                 listeners, queue, hasDOM, selector, refs, failed>>

\* show setting the display to '' whatever hide() cached
ShowEmpty(r) ==
  /\ Bound(r)
  /\ document' = [document EXCEPT ![selector[r]] = <<>>]
  /\ last' = Call("show", r)
  /\ UNCHANGED <<cfg, built, scope, _states, _state, _reactions, _properties,
                 listeners, queue, hasDOM, selector, displaystate, refs, failed>>

\* show ()
Show(r) ==
  /\ Bound(r)
  /\ document' = [document EXCEPT ![selector[r]] =
                    Coalesce(displaystate[r], Str(<<>>)).v]
  /\ last' = Call("show", r)
  /\ UNCHANGED <<cfg, built, scope, _states, _state, _reactions, _properties,
                 listeners, queue, hasDOM, selector, displaystate, refs, failed>>

\* s is the selector p or the selector of an element inside p's element.
Within(p, s) == Len(p) <= Len(s) /\ SubSeq(s, 1, Len(p)) = p

\* destroy without the check for NGN.DOM
DestroyUnchecked(r) ==
  /\ r \in built
  /\ hasDOM => Bound(r)
  /\ document' = [s \in {q \in DOMAIN document : ~Within(selector[r], q)} |->
                    document[s]]
  /\ last' = Call("destroy", r)
  /\ UNCHANGED <<cfg, built, scope, _states, _state, _reactions, _properties,
                 listeners, queue, hasDOM, selector, displaystate, refs, failed>>

\* destroy (): NGN.DOM.destroy removes the element, and with it what it contains
Destroy(r) ==
  /\ r \in built
  /\ hasDOM => Bound(r)
  /\ IF ~hasDOM
       THEN /\ last' = [Call("destroy", r) EXCEPT !.threw = "Error"]
            /\ UNCHANGED document
       ELSE /\ document' = [s \in {q \in DOMAIN document : ~Within(selector[r], q)} |->
                              document[s]]
            /\ last' = Call("destroy", r)
  /\ UNCHANGED <<cfg, built, scope, _states, _state, _reactions, _properties,
                 listeners, queue, hasDOM, selector, displaystate, refs, failed>>

(***************************************************************************)
(* Configurations user code constructs registries with                     *)
(***************************************************************************)
Absent == [present |-> FALSE, isObject |-> TRUE, hasSelector |-> FALSE,
           selector |-> <<>>, parent |-> NoReg, hasNamespace |-> FALSE,
           namespace |-> <<>>, states |-> <<>>, initialState |-> JsNull,
           reactions |-> NullMap, properties |-> NullMap]

AllHandlers  == (On :> "ok") @@ (Off :> "ok")
SomeHandlers == (On :> "throw")
FailingOn    == (On :> "throw") @@ (Off :> "ok")

Config(parent, ns, states, initial, reacts, props) ==
  [present |-> TRUE, isObject |-> TRUE, hasSelector |-> TRUE, selector |-> <<"view">>,
   parent |-> parent, hasNamespace |-> ns # <<>>, namespace |-> ns,
   states |-> states, initialState |-> initial, reactions |-> reacts, properties |-> props]

RootConfigs ==
  { Config(NoReg, ns, st, i, NullMap, NullMap) :
      ns \in {<<>>, <<"app">>}, st \in {AllHandlers, SomeHandlers},
      i \in {JsNull, Str(On), Str(Off)} }

ChildConfigs(parent, name) ==
  { Config(parent, ns, st, JsNull, re, NullMap) :
      ns \in {<<>>, <<name>>}, st \in {AllHandlers, SomeHandlers},
      re \in {NullMap, Map(On :> Off)} }

Unbuilt ==
  /\ built = {}
  /\ scope = [r \in Regs |-> NullScope]
  /\ _states = [r \in Regs |-> <<>>]
  /\ _state = [r \in Regs |-> Default]
  /\ _reactions = [r \in Regs |-> NullMap]
  /\ _properties = [r \in Regs |-> NullMap]
  /\ listeners = <<>>
  /\ queue = <<>>
  /\ last = NoCall
  /\ selector = [r \in Regs |-> <<>>]
  /\ displaystate = [r \in Regs |-> JsNull]
  /\ refs = {}
  /\ failed = {}

\* Each configuration is given the selector of an element of its own.
Selectors == (1 :> <<"#v1">>) @@ (2 :> <<"#v2">>) @@ (3 :> <<"#v3">>)

Plan(c1, c2, c3) ==
  (1 :> [c1 EXCEPT !.selector = Selectors[1]])
    @@ (2 :> [c2 EXCEPT !.selector = Selectors[2]])
    @@ (3 :> [c3 EXCEPT !.selector = Selectors[3]])

\* The selector under which the element of configuration r is found: its own
\* selector behind those of its ancestors.
RECURSIVE PathOf(_, _)
PathOf(c, r) ==
  IF c[r].parent = NoReg THEN c[r].selector
  ELSE PathOf(c, c[r].parent) \o c[r].selector

\* A page that holds the element of every configuration, and NGN.DOM loaded.
WholePage ==
  /\ document = [s \in {PathOf(cfg, r) : r \in {q \in Regs : cfg[q].present}} |-> <<>>]
  /\ hasDOM = TRUE

\* A parent registry and one child.
Init ==
  /\ cfg \in { Plan(c1, c2, Absent) :
                 c1 \in RootConfigs, c2 \in ChildConfigs(1, "nav") }
  /\ Unbuilt
  /\ WholePage

Sources == {On, Off}
ReactionPairs == {<<On, Off>>, <<Off, On>>, <<On, On>>}

Next ==
  \/ \E r \in Regs : Construct(r)
  \/ RunRequeued
  \/ \E r \in Regs, v \in Values : Assign(r, v)
  \/ \E r \in Regs, p \in ReactionPairs : CreateReaction(r, p[1], p[2])
  \/ \E r \in Regs, s \in Sources : RemoveReaction(r, s)
  \/ \E r \in Regs : ClearReactions(r)

Spec == Init /\ [][Next]_vars

\* Three registries: a root, its child, and a third registry that is either
\* the child's child (a chain of three generations) or a second child of the
\* root.  Reactions are configured and left alone.
ChainRootConfigs ==
  { Config(NoReg, ns, AllHandlers, JsNull, NullMap, NullMap) :
      ns \in {<<>>, <<"app">>} }

ChainChildConfigs ==
  { Config(1, ns, st, JsNull, Map(On :> Off), NullMap) :
      ns \in {<<>>, <<"nav">>}, st \in {AllHandlers, SomeHandlers, FailingOn} }

ChainThirdConfigs ==
  { Config(pa, ns, AllHandlers, i, Map(Off :> On), NullMap) :
      pa \in {1, 2}, ns \in {<<>>, <<"item">>}, i \in {JsNull, Str(Off)} }

InitChain ==
  /\ cfg \in { Plan(c1, c2, c3) :
                 c1 \in ChainRootConfigs, c2 \in ChainChildConfigs,
                 c3 \in ChainThirdConfigs }
  /\ Unbuilt
  /\ WholePage

NextChain ==
  \/ \E r \in Regs : Construct(r)
  \/ RunRequeued
  \/ \E r \in Regs, v \in Values : Assign(r, v)

SpecChain == InitChain /\ [][NextChain]_vars

\* A root with or without a property model, and a child without one.
TitleOnly == Map([f \in {"title"} |-> JsNull])

InitProps ==
  /\ cfg \in { Plan(Config(NoReg, ns1, st, JsNull, NullMap, p1),
                     Config(1, ns2, AllHandlers, JsNull, Map(On :> Off), NullMap),
                     Absent) :
                 ns1 \in {<<>>, <<"app">>}, ns2 \in {<<>>, <<"nav">>},
                 st \in {AllHandlers, SomeHandlers}, p1 \in {NullMap, TitleOnly} }
  /\ Unbuilt
  /\ WholePage

NextProps ==
  \/ \E r \in Regs : Construct(r)
  \/ \E r \in Regs, v \in Values : Assign(r, v)
  \/ \E r \in Regs, f \in Fields, v \in PropValues \cup {JsNull} : UpdateField(r, f, v)
  \/ \E r \in Regs, v \in PropValues \cup {JsNull} : CreateField(r, "extra", v)
  \/ \E r \in Regs : DeleteField(r, "extra")

SpecProps == InitProps /\ [][NextProps]_vars

\* Registries and the page: a root, and a second configuration that is a
\* child of it, or no object, or an object without selector; a page in which
\* the elements may be missing; NGN.DOM loaded or not.
DomRootConfigs ==
  { Config(NoReg, <<>>, AllHandlers, Str(On), NullMap, p) : p \in {NullMap, TitleOnly} }

DomChild == Config(1, <<"nav">>, AllHandlers, Str(Off), Map(On :> Off), NullMap)

DomChildConfigs ==
  { DomChild,
    [DomChild EXCEPT !.hasSelector = FALSE],
    [Absent EXCEPT !.present = TRUE, !.isObject = FALSE] }

Pages ==
  LET root  == Selectors[1]
      child == Selectors[1] \o Selectors[2]
  IN {<<>>} \cup { (root :> d) : d \in {<<>>, Block} }
            \cup { (root :> d) @@ (child :> <<>>) : d \in {<<>>, Block} }

InitDom ==
  /\ cfg \in { Plan(c1, c2, Absent) : c1 \in DomRootConfigs, c2 \in DomChildConfigs }
  /\ Unbuilt
  /\ document \in Pages
  /\ hasDOM \in BOOLEAN

NextDom ==
  \/ \E r \in Regs : Construct(r)
  \/ RunRequeued
  \/ \E r \in Regs, v \in {Str(On), Str(Off)} : Assign(r, v)
  \/ \E r \in Regs : CreateReaction(r, Off, On)
  \/ \E r \in Regs : ClearReactions(r)
  \/ \E r \in Regs : ReadProperties(r)
  \/ \E r \in Regs : Hide(r)
  \/ \E r \in Regs : Show(r)
  \/ \E r \in Regs : Destroy(r)

SpecDom == InitDom /\ [][NextDom]_vars

(***************************************************************************)
(* Reading the record of the last call                                     *)
(***************************************************************************)
\* The events registry r emitted under `topic` during the last call.
EventsBy(r, topic) ==
  SelectSeq(last.ev, LAMBDA e : e.by = r /\ e.name = EventName(r, topic))

\* The state handlers of registry r the last call invoked.
CallsOf(r) == SelectSeq(last.calls, LAMBDA c : c.reg = r)

\* The last call was `registry.state = value` with a string value.
AssignedString == last.op = "assign" /\ last.value.t = "string"

(***************************************************************************)
(* Claims                                                                  *)
(***************************************************************************)

\* C1: assigning a value whose normalized form (trimmed, lower-cased) equals
\* the current state emits no event, invokes no handler and leaves the
\* state unchanged.
C1_SameStateIsNoOp ==
  (AssignedString /\ Normalize(last.value.v) = last.pre[last.reg])
    => /\ last.ev = <<>>
       /\ last.calls = <<>>
       /\ _state = last.pre

\* C2: assigning v with normalize(v) different from the current state p
\* sets the state to normalize(v) and emits exactly one state.changed
\* {old: p, new: normalize(v)} on the registry; no emitted state.changed
\* payload has old equal to new.
C2_OneEventPerAssignment ==
  /\ (AssignedString /\ Normalize(last.value.v) # last.pre[last.reg])
       => /\ _state[last.reg] = Normalize(last.value.v)
          /\ EventsBy(last.reg, StateChanged) =
               << [by |-> last.reg, name |-> EventName(last.reg, StateChanged),
                   data |-> [old |-> last.pre[last.reg],
                             new |-> Normalize(last.value.v)]] >>
  /\ \A i \in 1..Len(last.ev) :
       last.ev[i].name = EventName(last.ev[i].by, StateChanged)
         => last.ev[i].data.old # last.ev[i].data.new

\* C3: a transition to a name that is no key of `states` succeeds and invokes
\* exactly one handler, the "default" one; a transition to a key of `states`
\* invokes exactly that state's handler.
C3_DefaultHandlerFallback ==
  (AssignedString /\ Normalize(last.value.v) # last.pre[last.reg])
    => LET n == Normalize(last.value.v)
           k == IF n \in DOMAIN _states[last.reg] THEN n ELSE Default
       IN /\ Len(EventsBy(last.reg, StateChanged)) = 1
          /\ Len(CallsOf(last.reg)) = 1
          /\ CallsOf(last.reg)[1].key = k

\* C4: every dispatched state handler receives, as its single argument, the
\* {old, new} descriptor of the transition that was emitted with state.changed.
C4_HandlerReceivesTransition ==
  \A i \in 1..Len(last.calls) :
    \E j \in 1..Len(last.ev) :
      /\ last.ev[j].name = EventName(last.calls[i].reg, StateChanged)
      /\ last.ev[j].data.new = last.calls[i].key
      /\ last.calls[i].args = <<last.ev[j].data>>

\* The reactions map of registry c as the last call found it.
ReactionsBefore(c) ==
  IF last.preReactions[c].null THEN <<>> ELSE last.preReactions[c].map

\* The last call assigned a string to the state of c's parent and returned.
ParentAssigned(c) ==
  /\ c \in built
  /\ cfg[c].parent # NoReg
  /\ AssignedString
  /\ last.reg = cfg[c].parent
  /\ last.threw = "none"

\* What C5 promises child c once its parent's state was set to n.
ChildFollows(c, n) ==
  IF n \in DOMAIN ReactionsBefore(c)
    THEN /\ _state[c] = ReactionsBefore(c)[n]
         /\ last.pre[c] = ReactionsBefore(c)[n] => EventsBy(c, StateChanged) = <<>>
    ELSE _state[c] = last.pre[c]

\* C5: when an assignment changes the parent's state to a source state of the
\* child's reactions map, the child is in the target state when the parent's
\* assignment returns (without a new event if it already was); when the new
\* parent state is no key of the map, the child's state is unchanged.
C5_ChildFollowsParent ==
  \A c \in Regs :
    (ParentAssigned(c) /\ Normalize(last.value.v) # last.pre[cfg[c].parent])
      => ChildFollows(c, Normalize(last.value.v))

\* The last call was a state assignment (by user code or by the requeued
\* initial transition) that returned.
AssignmentReturned == last.op \in {"assign", "requeued"} /\ last.threw = "none"

\* The state.changed events of r during the last call are one per transition:
\* they lead, each from the state the one before it left, from the state r had
\* before the call to the state it has now.
OneEventPerTransition(r) ==
  LET es == EventsBy(r, StateChanged)
  IN IF es = <<>> THEN _state[r] = last.pre[r]
     ELSE /\ es[1].data.old = last.pre[r]
          /\ \A i \in 1..(Len(es) - 1) : es[i + 1].data.old = es[i].data.new
          /\ es[Len(es)].data.new = _state[r]

ConfiguredInitialState(r) ==
  /\ cfg[r].initialState.t = "string"
  /\ cfg[r].initialState.v # Default
  /\ cfg[r].initialState.v \in DOMAIN _states[r]

\* C7: the constructor emits nothing, invokes no handler and leaves the
\* registry in "default"; the initial transition is handed to the scheduler,
\* and when that later turn finds the registry still in "default" the
\* registry emits exactly one state.changed {old: "default", new:
\* initialState} and is in initialState afterwards.
C7_InitialTransitionDeferred ==
  /\ last.op = "construct"
       => /\ last.ev = <<>> /\ last.calls = <<>>
          /\ _state = last.pre /\ _state[last.reg] = Default
          /\ ConfiguredInitialState(last.reg) => queue = Append(last.preQueue, last.reg)
  /\ (last.op = "requeued" /\ last.pre[last.reg] = Default)
       => /\ ConfiguredInitialState(last.reg)
          /\ EventsBy(last.reg, StateChanged) =
               << [by |-> last.reg, name |-> EventName(last.reg, StateChanged),
                   data |-> [old |-> Default, new |-> cfg[last.reg].initialState.v]] >>
          /\ _state[last.reg] = cfg[last.reg].initialState.v

\* The one property.changed event registry r emits with payload `data`.
OnePropertyChanged(r, data) ==
  EventsBy(r, PropertyChanged) =
    << [by |-> r, name |-> EventName(r, PropertyChanged), data |-> data] >>

\* C8: each event of the property model is translated into exactly one
\* property.changed on the registry: field.update into {property, old, new},
\* field.create into {property, old: null, new: the field's current value},
\* field.delete into {property, old: the deleted value, new: null}; a
\* registry without a property model emits no property.changed.
C8_PropertyChangedTranslation ==
  /\ last.op = "field.update"
       => OnePropertyChanged(last.reg,
            [property |-> last.value.field, old |-> last.value.old,
             new |-> _properties[last.reg].map[last.value.field]])
  /\ last.op = "field.create"
       => OnePropertyChanged(last.reg,
            [property |-> last.value.field, old |-> JsNull,
             new |-> _properties[last.reg].map[last.value.field]])
  /\ last.op = "field.delete"
       => OnePropertyChanged(last.reg,
            [property |-> last.value.field, old |-> last.value.value, new |-> JsNull])
  /\ \A r \in Regs :
       _properties[r].null => EventsBy(r, PropertyChanged) = <<>>

\* C8 witness: a field created with a value, so that the event carries
\* old: null and the value the field holds.
C8_Witness ==
  /\ last.op = "field.create"
  /\ \E i \in 1..Len(last.ev) :
       /\ last.ev[i].by = last.reg
       /\ last.ev[i].data.old = JsNull
       /\ last.ev[i].data.new \in PropValues

\* How many events emitted under the `topic` name of c's parent during the
\* last call carry payload d (the parent's own events among them).
FromParent(c, topic, d) ==
  Cardinality({i \in 1..Len(last.ev) :
                 /\ last.ev[i].name = EventName(cfg[c].parent, topic)
                 /\ last.ev[i].data = d})

\* How many events c emitted under `forwarded` with payload d.
ForwardedBy(c, forwarded, d) ==
  Cardinality({i \in 1..Len(last.ev) :
                 /\ last.ev[i].by = c
                 /\ last.ev[i].name = EventName(c, forwarded)
                 /\ last.ev[i].data = d})

Payloads == {last.ev[i].data : i \in 1..Len(last.ev)}

\* Child c forwarded, one for one and with the same payload, the events on
\* its parent's state.changed and property.changed.
ForwardsOneForOne(c) ==
  \A d \in Payloads :
    /\ ForwardedBy(c, ParentStateChanged, d) = FromParent(c, StateChanged, d)
    /\ ForwardedBy(c, ParentPropertyChanged, d) = FromParent(c, PropertyChanged, d)

\* A registry without a parent emitted neither parent.* event.
NoParentNoForward ==
  \A r \in built :
    cfg[r].parent = NoReg
      => /\ EventsBy(r, ParentStateChanged) = <<>>
         /\ EventsBy(r, ParentPropertyChanged) = <<>>

C10_CreateReactionAlwaysAdds ==
  (last.op = "createReaction" /\ cfg[last.reg].parent # NoReg)
    => /\ last.threw = "none"
       /\ last.source \in DOMAIN reactions(last.reg)
       /\ Str(reactions(last.reg)[last.source]) = last.value

\* The registries' fields, the subscriptions and the requeued callbacks: all
\* of the state but the record of the last call.
fields == <<cfg, built, scope, _states, _state, _reactions, _properties,
            listeners, queue, dom>>

\* C11: createReaction on a registry without a parent raises no error and
\* changes nothing: the reactions map, the state and every other field of
\* every registry are as they were.
C11_CreateReactionWithoutParent ==
  [][\A r \in Regs, p \in ReactionPairs :
       (CreateReaction(r, p[1], p[2]) /\ cfg[r].parent = NoReg)
         => /\ last'.threw = "none"
            /\ last'.ev = <<>>
            /\ UNCHANGED fields]_vars

\* C11 witness: createReaction was called on a constructed registry that has
\* no parent.
C11_Witness ==
  /\ last.op = "createReaction"
  /\ last.reg \in built
  /\ cfg[last.reg].parent = NoReg

\* C12: removeReaction(source) removes exactly the entry keyed source: every
\* other entry, every other registry's map and all states stay as they were;
\* when source is no key of the map (empty, never configured or cleared
\* included) the call raises nothing and changes nothing.
C12_RemoveReactionRemovesOne ==
  [][\A r \in Regs, s \in Sources :
       RemoveReaction(r, s)
         => /\ last'.threw = "none"
            /\ last'.ev = <<>>
            /\ reactions(r)' = [k \in DOMAIN reactions(r) \ {s} |-> reactions(r)[k]]
            /\ \A o \in Regs \ {r} : _reactions'[o] = _reactions[o]
            /\ UNCHANGED <<dom, cfg, built, scope, _states, _state, _properties,
                           listeners, queue>>
            /\ s \notin DOMAIN reactions(r) => UNCHANGED fields]_vars

\* C12 witness: one of two entries was removed, the other is still there.
C12_Witness ==
  /\ last.op = "removeReaction"
  /\ ~last.preReactions[last.reg].null
  /\ DOMAIN last.preReactions[last.reg].map = {On, Off}
  /\ DOMAIN reactions(last.reg) = {On, Off} \ {last.source}

\* C13: clearReactions() leaves the reactions accessor returning an empty
\* mapping, changes no state and emits nothing; and while a registry's
\* reactions are cleared, no assignment made on another registry (its parent
\* included) changes its state or makes it emit state.changed.
C13_ClearedReactionsAreInert ==
  /\ [][\A r \in Regs :
          ClearReactions(r)
            => /\ reactions(r)' = <<>>
               /\ last'.threw = "none" /\ last'.ev = <<>>
               /\ UNCHANGED <<dom, cfg, built, scope, _states, _state, _properties,
                              listeners, queue>>]_vars
  /\ [](\A c \in built :
          (last.op \in {"assign", "requeued"} /\ last.reg # c
             /\ last.preReactions[c].null)
            => /\ _state[c] = last.pre[c]
               /\ EventsBy(c, StateChanged) = <<>>)

\* C13 witness: a child configured to follow "on" had its reactions cleared,
\* its parent then moved to "on", and the child stayed where it was.
C13_Witness ==
  \E c \in built :
    /\ cfg[c].parent # NoReg
    /\ ~cfg[c].reactions.null /\ On \in DOMAIN cfg[c].reactions.map
    /\ last.preReactions[c].null
    /\ last.op = "assign" /\ last.reg = cfg[c].parent /\ last.threw = "none"
    /\ last.pre[last.reg] # On /\ _state[last.reg] = On
    /\ _state[c] = last.pre[c]

\* The last call assigned a new state to a registry, the handler of that state
\* was invoked for it and threw, nothing running after it.
HandlerThrew ==
  /\ AssignedString
  /\ Normalize(last.value.v) # last.pre[last.reg]
  /\ last.calls # <<>>
  /\ LET h == last.calls[Len(last.calls)]
     IN /\ h.reg = last.reg
        /\ h.key = Normalize(last.value.v)
        /\ _states[h.reg][h.key] = "throw"

\* C14: when the handler of the state a registry is assigned throws, the
\* assignment throws that error to its caller and the registry is left in the
\* new state (state reads as the assigned value, normalized).
C14_ThrowingHandlerKeepsNewState ==
  HandlerThrew
    => /\ last.threw = "HandlerError"
       /\ _state[last.reg] = Normalize(last.value.v)

\* C19: the deferred initial transition cannot be revoked: when the registry
\* was moved out of "default" before the deferred step runs, the step still
\* assigns initialState; the registry ends in initialState, having emitted
\* one state.changed {old: the state it was moved to, new: initialState}
\* when the two differ and none when they are equal.
C19_DeferredTransitionNotRevoked ==
  (last.op = "requeued" /\ last.pre[last.reg] # Default)
    => LET r == last.reg
           i == cfg[r].initialState.v
       IN /\ _state[r] = i
          /\ EventsBy(r, StateChanged) =
               IF last.pre[r] = i THEN <<>>
               ELSE << [by |-> r, name |-> EventName(r, StateChanged),
                        data |-> [old |-> last.pre[r], new |-> i]] >>

\* C20: constructing a registry whose initialState is a string other than
\* "default" schedules the deferred transition, whether or not initialState
\* is a key of `states`; once the constructor has returned and no deferred
\* step of the registry is pending, the registry is in its initialState.
C20_InitialStateAlwaysReached ==
  /\ (last.op = "construct" /\ cfg[last.reg].initialState.t = "string"
        /\ cfg[last.reg].initialState.v # Default)
       => queue = Append(last.preQueue, last.reg)
  /\ (last.op \in {"construct", "requeued"}
        /\ \A k \in 1..Len(queue) : queue[k] # last.reg)
       => LET r == last.reg
          IN cfg[r].initialState.t = "string" => _state[r] = cfg[r].initialState.v

\* A constructor that threw has subscribed nothing, created no self
\* reference, scheduled nothing and left no registry behind.
NothingConstructed ==
  UNCHANGED <<built, scope, _states, _state, _reactions, _properties, listeners,
              queue, refs, selector, displaystate, document>>

\* C15: the constructor throws for a configuration that is no object, else
\* for one without selector, else for a parent whose selector does not
\* resolve, else for an effective selector (the parent's, then its own) that
\* resolves to no element, the first of these that applies deciding the
\* error; whenever it throws, no listener has been subscribed, no self
\* reference created and no initial transition scheduled.
C15_ConstructionFailsWhole ==
  [][\A r \in Regs :
       Construct(r)
         => LET c        == cfg[r]
                noParent == c.parent # NoReg /\ selector[c.parent] \notin DOMAIN document
                path     == IF c.parent = NoReg THEN c.selector
                            ELSE selector[c.parent] \o c.selector
            IN /\ ~c.isObject => last'.threw = "InvalidConfiguration"
               /\ (c.isObject /\ ~c.hasSelector) => last'.threw = "MissingSelector"
               /\ (c.isObject /\ c.hasSelector /\ noParent)
                    => last'.threw = "ParentNotFound"
               /\ (c.isObject /\ c.hasSelector /\ ~noParent
                     /\ path \notin DOMAIN document)
                    => last'.threw = "ElementNotFound"
               /\ last'.threw # "none" => NothingConstructed]_vars

\* C15 witness: the constructor of a child threw because the effective
\* selector resolved to nothing, for a configuration whose initial state
\* would have been scheduled.
C15_Witness ==
  /\ last.op = "construct"
  /\ last.threw = "ElementNotFound"
  /\ cfg[last.reg].parent # NoReg
  /\ cfg[last.reg].initialState = Str(Off)
  /\ last.reg \notin built

\* C16: hide() sets the element's display to "none"; show() right after
\* hide() sets it to the value it had before that hide(); show() on a
\* registry on which hide() was never called sets it to the empty string
\* (the cached value changes in hide() only, so a null one means no hide()).
C16_HideThenShowRestores ==
  [][\A r \in Regs :
       /\ Hide(r) => document'[selector[r]] = None
       /\ (Show(r) /\ last.op = "hide" /\ last.reg = r)
            => document'[selector[r]] = last.value.v
       /\ (Show(r) /\ displaystate[r] = JsNull) => document'[selector[r]] = <<>>
       /\ displaystate'[r] # displaystate[r]
            => /\ last'.op = "hide" /\ last'.reg = r
               /\ displaystate'[r] # JsNull]_vars

\* C16 witness: show() after hide() put the display back to "block".
C16_Witness ==
  /\ last.op = "show"
  /\ displaystate[last.reg] = Str(Block)
  /\ document[selector[last.reg]] = Block

\* C17: with NGN.DOM loaded destroy() removes the registry's element; without
\* it destroy() throws and the element, the state, the reactions and all
\* else are unchanged; destroy() leaves the parent's element in the page.
C17_DestroyNeedsCapability ==
  [][\A r \in Regs :
       Destroy(r)
         => /\ hasDOM => (last'.threw = "none" /\ selector[r] \notin DOMAIN document')
            /\ ~hasDOM => (last'.threw = "Error" /\ UNCHANGED fields)
            /\ UNCHANGED <<_state, _reactions>>
            /\ \A p \in built :
                 (p = cfg[r].parent /\ selector[p] \in DOMAIN document)
                   => /\ selector[p] \in DOMAIN document'
                      /\ document'[selector[p]] = document[selector[p]]]_vars

\* C17 witness: a child was destroyed; its element is gone, its parent's is
\* still in the page.
C17_Witness ==
  /\ last.op = "destroy" /\ last.threw = "none"
  /\ cfg[last.reg].parent # NoReg
  /\ selector[last.reg] \notin DOMAIN document
  /\ selector[cfg[last.reg].parent] \in DOMAIN document

\* C18: a registry constructed without `properties` never has a property
\* model, whatever is done to it; reading `properties` then returns an empty
\* object, raises nothing and changes nothing.
C18_NoPropertiesIsPermanent ==
  /\ [](\A r \in built : cfg[r].properties.null => _properties[r].null)
  /\ []((last.op = "properties" /\ cfg[last.reg].properties.null)
          => (last.threw = "none" /\ last.value = EmptyObject))
  /\ [][\A r \in Regs : ReadProperties(r) => UNCHANGED fields]_vars

\* C18 witness: `properties` was read, and came back empty, on a registry
\* without property model that had changed state, been hidden and lost its
\* reactions before.
C18_Witness ==
  /\ last.op = "properties"
  /\ cfg[last.reg].properties.null
  /\ last.value = EmptyObject
  /\ _state[last.reg] # Default
  /\ displaystate[last.reg] # JsNull
  /\ _reactions[last.reg].null /\ ~cfg[last.reg].reactions.null

\* Registry d is a, a child of a or a grandchild of a.
Descends(d, a) ==
  \/ d = a
  \/ cfg[d].parent = a
  \/ cfg[d].parent # NoReg /\ cfg[cfg[d].parent].parent = a

\* C21: a state transition of a child registry (assigned by user code or by
\* its deferred initial transition) invokes no state handler of, and changes
\* the state of, no registry other than the child and its descendants, and
\* the child does not receive it as parent.state.changed; whatever the
\* namespaces are.
C21_StateEventsOnlyGoDown ==
  (last.op \in {"assign", "requeued"} /\ cfg[last.reg].parent # NoReg)
    => LET c == last.reg
       IN /\ \A i \in 1..Len(last.calls) : Descends(last.calls[i].reg, c)
          /\ \A r \in built : ~Descends(r, c) => _state[r] = last.pre[r]
          /\ EventsBy(c, ParentStateChanged) = <<>>

\* C22: the cascade one state assignment starts (made by user code or by the
\* deferred initial transition) ends without exhausting the call stack and
\* makes at most one transition in each registry, whatever the reactions
\* maps are.
C22_CascadeTerminates ==
  last.op \in {"assign", "requeued"}
    => /\ last.threw # "RangeError"
       /\ \A r \in built : Len(EventsBy(r, StateChanged)) <= 1

\* C23: when an assignment moves a registry to a new state, no state handler
\* of a registry below it is invoked before its own handler for the new
\* state; and when that handler throws, no registry below it has changed
\* state, emitted state.changed or had a handler invoked.
C23_ParentFirst ==
  (AssignedString /\ Normalize(last.value.v) # last.pre[last.reg])
    => LET p == last.reg
           n == Normalize(last.value.v)
       IN /\ \A i \in 1..Len(last.calls) :
               (last.calls[i].reg # p /\ Descends(last.calls[i].reg, p))
                 => \E j \in 1..(i - 1) :
                      last.calls[j].reg = p /\ last.calls[j].key = n
          /\ (n \in DOMAIN _states[p] /\ _states[p][n] = "throw")
               => \A r \in built \ {p} :
                    Descends(r, p)
                      => /\ _state[r] = last.pre[r]
                         /\ EventsBy(r, StateChanged) = <<>>
                         /\ CallsOf(r) = <<>>

\* C24: hide() called again right after hide() keeps the cached display value,
\* so that the show() that follows restores what the element showed before
\* the first hide(); "none" is never the cached value (no element of the
\* page starts out with display "none").
C24_HideIsIdempotent ==
  /\ [][\A r \in Regs :
          (Hide(r) /\ last.op = "hide" /\ last.reg = r)
            => displaystate'[r] = displaystate[r]]_vars
  /\ [](\A r \in built : displaystate[r] # Str(None))

\* s is trimmed and lower-case: no blank at either end, no capital letter.
IsNormalForm(s) ==
  /\ s # <<>> => (s[1] # " " /\ s[Len(s)] # " ")
  /\ \A i \in 1..Len(s) : s[i] \notin {"O", "N", "F", "D"}

\* C25: the state of every constructed registry is a trimmed, lower-case
\* string and its states map has a "default" handler; a registry leaves its
\* constructor in "default" and its state changes only in a state assignment
\* (by user code, a reaction or the deferred initial transition); assigning
\* null throws and changes no state.
C25_StateIsNormalized ==
  /\ [](\A r \in built : IsNormalForm(_state[r]) /\ Default \in DOMAIN _states[r])
  /\ []((last.op = "assign" /\ last.value = JsNull)
          => (last.threw # "none" /\ _state = last.pre /\ last.ev = <<>>))
  /\ [][\A r \in Regs :
          /\ (r \notin built /\ r \in built') => _state'[r] = Default
          /\ _state'[r] # _state[r] => last'.op \in {"assign", "requeued"}]_vars

\* C25 witness: an assignment of " On" took the registry to "on".
C25_Witness ==
  /\ last.op = "assign" /\ last.value = Str(OnRaw)
  /\ last.pre[last.reg] = Default
  /\ _state[last.reg] = On

====
